---- MODULE Spec2Model ----
(***************************************************************************)
(* Model of the QuickBooks gateway of src/index.js: a single Node process  *)
(* holding one realmId (store) and one OAuth token (inside oauthClient),   *)
(* an OAuth callback handler and five invoice handlers that proxy to the   *)
(* provider.  Node runs a handler without interruption between two awaits, *)
(* so every action below is the code between two awaits of one handler.    *)
(* The provider (token endpoint and REST API) is the environment: it       *)
(* answers every outbound call with a success or an error of its choice.   *)
(***************************************************************************)
EXTENDS Integers, FiniteSets

\* ---------------------------------------------------------------- bounds
NReq == 2          \* resource requests that can be in flight together
NCb == 1           \* callbacks that can be in flight together
MaxTok == 2        \* access tokens the provider issues in one run
MaxTokSwitch == 3  \* the same in the runs of SwitchSpec
MaxInput == 500    \* largest magnitude of a numeric max of GET /invoices

Req == 1..NReq
Cb == 1..NCb

\* ---------------------------------------------------------------- values
Null == "null"
Accounts == {"A", "B"}
Ops == {"create", "get", "list", "pdf", "email"}

\* The token held by oauthClient: the access token (id), the account it was
\* issued for, and whether its expiry is still in the future.
NoToken == [id |-> 0, acct |-> Null, valid |-> FALSE]

\* The query of GET /auth/callback.
CallbackParams ==
    [code : {Null, "code"}, realmId : Accounts \cup {Null}, error : {Null, "access_denied"}]

\* err.response.data of a failed outbound call: nothing, a parsed JSON object,
\* a string that is not JSON, or a string that holds JSON.
NoData == [type |-> "none", content |-> "", json |-> FALSE]
Data ==
    { NoData,
      [type |-> "object", content |-> "Fault", json |-> TRUE],
      [type |-> "string", content |-> "Service Unavailable", json |-> FALSE],
      [type |-> "string", content |-> "Fault", json |-> TRUE] }

RemoteStatus == {400, 500}

\* The error a rejected await throws: with no response (network error, an
\* Error thrown locally) or with the provider's status and body.
NoResponseErr == [hasResponse |-> FALSE, status |-> 0, data |-> NoData, message |-> "Network Error"]
NotAuthenticatedErr ==
    [hasResponse |-> FALSE, status |-> 0, data |-> NoData, message |-> "Not authenticated"]
Err ==
    {NoResponseErr} \cup
    [hasResponse : {TRUE}, status : RemoteStatus, data : Data, message : {"Request failed"}]

\* What a handler sends back.
NoResp == [kind |-> "none", status |-> 0, shape |-> "none", content |-> ""]

VARIABLES
    store,          \* src/index.js:32  store.realmId
    token,          \* the token inside oauthClient
    req,            \* per resource request: position in its handler
    cb,             \* per callback: position in its handler
    calls,          \* outbound calls the provider has not answered yet
    nextTok,        \* the next access token the provider issues
    resp,           \* the response sent by the latest step (NoResp: none)
    lastAuth,       \* history: the latest of exchange success / disconnect
    refreshFailed,  \* history: since the last exchange success a refresh failed
                    \* while no other resource request was in flight
    left,           \* access tokens the provider still issues in this run
    proc,           \* the process: "starting", "serving" or "exited"
    config,         \* which of the three required environment variables are set
    query           \* GET /invoices: the max of the query and the maxresults computed

vars == <<store, token, req, cb, calls, nextTok, resp, lastAuth, refreshFailed,
          left, proc, config, query>>

\* process.env: TRUE for a variable that is set to a non-empty string.
Config == [QBO_CLIENT_ID : BOOLEAN, QBO_CLIENT_SECRET : BOOLEAN, QBO_REDIRECT_URI : BOOLEAN]

\* A JavaScript number: NaN or an integer.
NaN == [nan |-> TRUE, n |-> 0]
Num(n) == [nan |-> FALSE, n |-> n]

\* req.query.max: absent, the empty string, a string that is no number, or a
\* string that is the numeral of an integer.
QueryMax ==
    {[kind |-> "absent", n |-> 0], [kind |-> "empty", n |-> 0], [kind |-> "text", n |-> 0]}
      \cup [kind : {"numeral"}, n : -MaxInput..MaxInput]

NoQuery == [max |-> [kind |-> "absent", n |-> 0], done |-> FALSE, maxresults |-> NaN]

IdleReq == [pc |-> "idle", op |-> "none", nRefresh |-> 0, nApi |-> 0]
IdleCb == [pc |-> "idle", realmId |-> Null, nExchange |-> 0]

Call(kind, by, op, realm, tok) ==
    [kind |-> kind, by |-> by, op |-> op, realm |-> realm, tokId |-> tok.id, tokAcct |-> tok.acct]

\* Lines 24-32: the client without a token, the store without a realm.
Fresh ==
    /\ store = [realmId |-> Null]
    /\ token = NoToken
    /\ req = [r \in Req |-> IdleReq]
    /\ cb = [c \in Cb |-> IdleCb]
    /\ calls = {}
    /\ nextTok = 1
    /\ resp = NoResp
    /\ lastAuth = "none"
    /\ refreshFailed = FALSE

\* The process before the check of its environment.
Init ==
    /\ Fresh
    /\ left = MaxTok
    /\ proc = "starting"
    /\ config \in Config
    /\ query = NoQuery

\* ------------------------------------------------------- pure functions

\* The startup test with the three tests joined by && instead of ||.
ConfigMissingAll(c) == ~c.QBO_CLIENT_ID /\ ~c.QBO_CLIENT_SECRET /\ ~c.QBO_REDIRECT_URI

\* !QBO_CLIENT_ID || !QBO_CLIENT_SECRET || !QBO_REDIRECT_URI
ConfigMissing(c) == ~c.QBO_CLIENT_ID \/ ~c.QBO_CLIENT_SECRET \/ ~c.QBO_REDIRECT_URI

\* The ceiling and the default of max in GET /invoices.
MaxCeiling == 100
MaxDefault == 50

\* req.query.max || 50: the default replaces undefined and the empty string.
OrDefault(v) == IF v.kind \in {"absent", "empty"} THEN [kind |-> "numeral", n |-> MaxDefault] ELSE v

\* Number(x) of a number or a string.
Number(v) == IF v.kind = "numeral" THEN Num(v.n) ELSE NaN

\* The larger of the two instead of the smaller.
MathMax(a, b) == IF a.nan \/ b.nan THEN NaN ELSE IF a.n > b.n THEN a ELSE b

\* Math.min: NaN when either argument is NaN.
MathMin(a, b) == IF a.nan \/ b.nan THEN NaN ELSE IF a.n < b.n THEN a ELSE b

\* const max = Math.min(Number(req.query.max || 50), 100)
ListMax(v) == MathMin(Number(OrDefault(v)), Num(MaxCeiling))

\* requireAuth with the two tests joined by && instead of ||.
requireAuthEither(realmId, tok) == ~(realmId = Null /\ tok = NoToken)

\* requireAuth: TRUE when the request may go on to its handler.
requireAuth(realmId, tok) == ~(realmId = Null \/ tok = NoToken)

\* A validity test that always asks for a refresh.
isAccessTokenValidNever(tok) == FALSE

\* oauthClient.isAccessTokenValid()
isAccessTokenValid(tok) == tok.valid

\* The body of the catch blocks of create, get, list and email:
\* err.response?.data || { error: err.message }
ErrBodyPlain(e) ==
    IF e.hasResponse /\ e.data.type # "none"
    THEN [shape |-> e.data.type, content |-> e.data.content]
    ELSE [shape |-> "errorObject", content |-> e.message]

\* The body of the catch block of pdf.
ErrBodyPdf(e) ==
    IF e.hasResponse /\ e.data.type # "none" /\ e.data.type # "string"
    THEN [shape |-> e.data.type, content |-> e.data.content]
    ELSE IF e.hasResponse /\ e.data.type = "string" /\ e.data.json
    THEN [shape |-> "object", content |-> e.data.content]
    ELSE [shape |-> "errorObject", content |-> e.message]

\* The status of the catch blocks: 400 for create, get and list,
\* err.response?.status || 400 for pdf and email.
ErrStatus(op, e) ==
    IF op \in {"pdf", "email"} /\ e.hasResponse THEN e.status ELSE 400

\* The whole catch block of a resource handler.
Catch(op, e) ==
    LET b == IF op = "pdf" THEN ErrBodyPdf(e) ELSE ErrBodyPlain(e)
    IN  [kind |-> "resource", status |-> ErrStatus(op, e), shape |-> b.shape, content |-> b.content]

\* The response of a resource handler whose proxied call succeeded.
Success(op) ==
    [kind |-> "resource",
     status |-> IF op = "create" THEN 201 ELSE 200,
     shape |-> IF op = "pdf" THEN "pdf" ELSE "object",
     content |-> "data"]

Unauthenticated ==
    [kind |-> "resource", status |-> 401, shape |-> "errorObject", content |-> "Not connected"]

CallbackResp(status, text) ==
    [kind |-> "callback", status |-> status, shape |-> "text", content |-> text]

\* ------------------------------------------------------------- actions

\* A step of a handler: the process listens (line 208), and no handler ends
\* it: each awaits inside try/catch and none calls process.exit.
Serving == proc = "serving" /\ UNCHANGED <<proc, config, query>>

\* GET /
Health ==
    /\ Serving
    /\ resp' = [kind |-> "health", status |-> 200, shape |-> "object",
                content |-> IF store.realmId # Null THEN "connected" ELSE "not connected"]
    /\ UNCHANGED <<store, token, req, cb, calls, lastAuth, refreshFailed, nextTok, left>>

\* GET /auth/connect
AuthConnect ==
    /\ Serving
    /\ resp' = [kind |-> "connect", status |-> 302, shape |-> "redirect", content |-> "authUri"]
    /\ UNCHANGED <<store, token, req, cb, calls, lastAuth, refreshFailed, nextTok, left>>

\* Disconnect that answers without resetting store.
DisconnectKeepsRealm ==
    /\ Serving
    /\ resp' = [kind |-> "disconnect", status |-> 200, shape |-> "object", content |-> "ok"]
    /\ lastAuth' = "disconnected"
    /\ UNCHANGED <<store, token, req, cb, calls, refreshFailed, nextTok, left>>

\* POST /auth/disconnect
Disconnect ==
    /\ Serving
    /\ store' = [realmId |-> Null]
    /\ resp' = [kind |-> "disconnect", status |-> 200, shape |-> "object", content |-> "ok"]
    /\ lastAuth' = "disconnected"
    /\ UNCHANGED <<token, req, cb, calls, refreshFailed, nextTok, left>>

\* Time passes the expiry of the access token.
Expire ==
    /\ Serving
    /\ token # NoToken
    /\ token.valid
    /\ token' = [token EXCEPT !.valid = FALSE]
    /\ resp' = NoResp
    /\ UNCHANGED <<store, req, cb, calls, lastAuth, refreshFailed, nextTok, left>>

\* The early returns of the callback in the other order.
CallbackCheckMissingFirst(p) ==
    IF p.code = Null \/ p.realmId = Null THEN "missing"
    ELSE IF p.error # Null THEN "denied"
    ELSE "exchange"

\* The two early returns of the callback (lines 81 and 82), else "exchange".
CallbackCheck(p) ==
    IF p.error # Null THEN "denied"
    ELSE IF p.code = Null \/ p.realmId = Null THEN "missing"
    ELSE "exchange"

\* GET /auth/callback up to its await: the early returns, or the token
\* exchange call of oauthClient.createToken.
CbStart(c, p) ==
    /\ Serving
    /\ cb[c].pc = "idle"
    /\ IF CallbackCheck(p) = "denied"
       THEN /\ resp' = CallbackResp(400, "OAuth error")
            /\ UNCHANGED <<cb, calls>>
       ELSE IF CallbackCheck(p) = "missing"
       THEN /\ resp' = CallbackResp(400, "Missing code/realmId")
            /\ UNCHANGED <<cb, calls>>
       ELSE /\ cb' = [cb EXCEPT ![c] = [pc |-> "awaitExchange", realmId |-> p.realmId,
                                        nExchange |-> 1]]
            /\ calls' = calls \cup {Call("exchange", c, "none", p.realmId, NoToken)}
            /\ resp' = NoResp
    /\ UNCHANGED <<store, token, req, lastAuth, refreshFailed, nextTok, left>>

\* The exchange succeeded: createToken sets the token inside oauthClient,
\* the handler sets store.realmId and answers 200.
CbExchangeOk(c) ==
    /\ Serving
    /\ cb[c].pc = "awaitExchange"
    /\ left > 0
    /\ nextTok' = nextTok + 1
    /\ left' = left - 1
    /\ \E k \in calls :
         /\ k.kind = "exchange" /\ k.by = c
         /\ calls' = calls \ {k}
         /\ token' = [id |-> nextTok, acct |-> k.realm, valid |-> TRUE]
    /\ store' = [realmId |-> cb[c].realmId]
    /\ cb' = [cb EXCEPT ![c] = IdleCb]
    /\ resp' = CallbackResp(200, "Connected")
    /\ lastAuth' = "connected"
    /\ refreshFailed' = FALSE
    /\ UNCHANGED req

\* A callback that sets store.realmId before the exchange is known to succeed.
CbExchangeFailSetsRealm(c) ==
    /\ Serving
    /\ cb[c].pc = "awaitExchange"
    /\ \E k \in calls :
         /\ k.kind = "exchange" /\ k.by = c
         /\ calls' = calls \ {k}
    /\ store' = [realmId |-> cb[c].realmId]
    /\ cb' = [cb EXCEPT ![c] = IdleCb]
    /\ resp' = CallbackResp(400, "Token exchange failed")
    /\ UNCHANGED <<token, req, lastAuth, refreshFailed, nextTok, left>>

\* The exchange failed: the catch block answers 400.
CbExchangeFail(c) ==
    /\ Serving
    /\ cb[c].pc = "awaitExchange"
    /\ \E k \in calls :
         /\ k.kind = "exchange" /\ k.by = c
         /\ calls' = calls \ {k}
    /\ cb' = [cb EXCEPT ![c] = IdleCb]
    /\ resp' = CallbackResp(400, "Token exchange failed")
    /\ UNCHANGED <<store, token, req, lastAuth, refreshFailed, nextTok, left>>

\* apiBase(): the realm the URL of a proxied call is built with.
apiBase == store.realmId

\* A handler that sends the token it saw before the refresh.
SendApiStale(r, op, tok) ==
    /\ calls' = {k \in calls : ~(k.kind = "refresh" /\ k.by = r)}
                  \cup {Call("api", r, op, apiBase, token)}
    /\ req' = [req EXCEPT ![r].pc = "awaitApi", ![r].op = op, ![r].nApi = @ + 1]

\* The handler from the return of ensureAccessToken to its next await:
\* apiBase() reads store.realmId and the proxied call goes out with the
\* access token ensureAccessToken returned.
SendApi(r, op, tok) ==
    /\ calls' = {k \in calls : ~(k.kind = "refresh" /\ k.by = r)}
                  \cup {Call("api", r, op, apiBase, tok)}
    /\ req' = [req EXCEPT ![r].pc = "awaitApi", ![r].op = op, ![r].nApi = @ + 1]

\* A resource request arrives: requireAuth, then the handler up to its first
\* await (ensureAccessToken sends the refresh call when the token is expired;
\* when it is valid the handler goes on to the proxied call in the same turn).
ReqStart(r, op) ==
    /\ Serving
    /\ req[r].pc = "idle"
    /\ IF ~requireAuth(store.realmId, token)
       THEN /\ resp' = Unauthenticated
            /\ UNCHANGED <<req, calls>>
       ELSE IF token = NoToken
       THEN /\ resp' = Catch(op, NotAuthenticatedErr)
            /\ UNCHANGED <<req, calls>>
       ELSE IF isAccessTokenValid(token)
       THEN /\ calls' = calls \cup {Call("api", r, op, apiBase, token)}
            /\ req' = [req EXCEPT ![r] = [pc |-> "awaitApi", op |-> op, nRefresh |-> 0,
                                          nApi |-> 1]]
            /\ resp' = NoResp
       ELSE /\ calls' = calls \cup {Call("refresh", r, op, Null, token)}
            /\ req' = [req EXCEPT ![r] = [pc |-> "awaitRefresh", op |-> op, nRefresh |-> 1,
                                          nApi |-> 0]]
            /\ resp' = NoResp
    /\ UNCHANGED <<store, token, cb, lastAuth, refreshFailed, nextTok, left>>

\* The refresh call succeeded: oauthClient stores the refreshed token,
\* ensureAccessToken returns the access token now in oauthClient and the
\* handler sends the proxied call.
RefreshOk(r) ==
    /\ Serving
    /\ req[r].pc = "awaitRefresh"
    /\ left > 0
    /\ nextTok' = nextTok + 1
    /\ left' = left - 1
    /\ \E k \in calls :
         /\ k.kind = "refresh" /\ k.by = r
         /\ token' = [id |-> nextTok, acct |-> k.tokAcct, valid |-> TRUE]
    /\ SendApi(r, req[r].op, token')
    /\ resp' = NoResp
    /\ UNCHANGED <<store, cb, lastAuth, refreshFailed>>

\* A failed refresh that clears the store.
RefreshFailClears(r, e) ==
    /\ Serving
    /\ req[r].pc = "awaitRefresh"
    /\ calls' = {k \in calls : ~(k.kind = "refresh" /\ k.by = r)}
    /\ req' = [req EXCEPT ![r] = IdleReq]
    /\ resp' = Catch(req[r].op, e)
    /\ refreshFailed' = (refreshFailed \/ \A q \in Req \ {r} : req[q].pc = "idle")
    /\ store' = [realmId |-> Null]
    /\ UNCHANGED <<token, cb, lastAuth, nextTok, left>>

\* A failed refresh that is tried again instead of being reported.
RefreshFailRetries(r, e) ==
    /\ Serving
    /\ req[r].pc = "awaitRefresh"
    /\ req[r].nRefresh < 3
    /\ req' = [req EXCEPT ![r].nRefresh = @ + 1]
    /\ resp' = NoResp
    /\ UNCHANGED <<store, token, cb, calls, lastAuth, refreshFailed, nextTok, left>>

\* The refresh call failed: the await throws and the catch block answers.
RefreshFail(r, e) ==
    /\ Serving
    /\ req[r].pc = "awaitRefresh"
    /\ calls' = {k \in calls : ~(k.kind = "refresh" /\ k.by = r)}
    /\ req' = [req EXCEPT ![r] = IdleReq]
    /\ resp' = Catch(req[r].op, e)
    /\ refreshFailed' = (refreshFailed \/ \A q \in Req \ {r} : req[q].pc = "idle")
    /\ UNCHANGED <<store, token, cb, lastAuth, nextTok, left>>

\* The provider answered the proxied call with a 2xx.
ApiOk(r) ==
    /\ Serving
    /\ req[r].pc = "awaitApi"
    /\ calls' = {k \in calls : ~(k.kind = "api" /\ k.by = r)}
    /\ req' = [req EXCEPT ![r] = IdleReq]
    /\ resp' = Success(req[r].op)
    /\ UNCHANGED <<store, token, cb, lastAuth, refreshFailed, nextTok, left>>

\* The proxied call failed: the catch block translates the error.
ApiFail(r, e) ==
    /\ Serving
    /\ req[r].pc = "awaitApi"
    /\ calls' = {k \in calls : ~(k.kind = "api" /\ k.by = r)}
    /\ req' = [req EXCEPT ![r] = IdleReq]
    /\ resp' = Catch(req[r].op, e)
    /\ UNCHANGED <<store, token, cb, lastAuth, refreshFailed, nextTok, left>>

\* Lines 19-22 and 208: exit when a required variable is missing, else listen.
Startup ==
    /\ proc = "starting"
    /\ proc' = IF ConfigMissing(config) THEN "exited" ELSE "serving"
    /\ UNCHANGED <<store, token, req, cb, calls, nextTok, left, resp, lastAuth, refreshFailed,
                   config, query>>

Next ==
    \/ Startup
    \/ Health
    \/ AuthConnect
    \/ Disconnect
    \/ Expire
    \/ \E c \in Cb, p \in CallbackParams : CbStart(c, p)
    \/ \E c \in Cb : CbExchangeOk(c)
    \/ \E c \in Cb : CbExchangeFail(c)
    \/ \E r \in Req, op \in Ops : ReqStart(r, op)
    \/ \E r \in Req : RefreshOk(r)
    \/ \E r \in Req, e \in Err : RefreshFail(r, e)
    \/ \E r \in Req : ApiOk(r)
    \/ \E r \in Req, e \in Err : ApiFail(r, e)

Spec == Init /\ [][Next]_vars

\* The same program with a provider that issues one more access token: a
\* change of account while a refresh is in flight takes two exchanges and one
\* refresh.
SwitchInit ==
    /\ Fresh
    /\ left = MaxTokSwitch
    /\ proc = "starting"
    /\ config \in Config
    /\ query = NoQuery

SwitchSpec == SwitchInit /\ [][Next]_vars

\* The same program with what its own scheduling guarantees: the top-level
\* code runs to the end, and time passes (a valid token expires).  Nothing
\* obliges a client to send a request or the provider to answer a call.
LiveSpec == Init /\ [][Next]_vars /\ WF_vars(Startup) /\ WF_vars(Expire)

\* Lines 134-135 of GET /invoices on every max a client can send.
ListQuery ==
    /\ ~query.done
    /\ query' = [query EXCEPT !.done = TRUE, !.maxresults = ListMax(query.max)]
    /\ UNCHANGED <<store, token, req, cb, calls, nextTok, left, resp, lastAuth, refreshFailed,
                   proc, config>>

ListInit ==
    /\ Fresh
    /\ left = MaxTok
    /\ proc = "serving"
    /\ config = [QBO_CLIENT_ID |-> TRUE, QBO_CLIENT_SECRET |-> TRUE, QBO_REDIRECT_URI |-> TRUE]
    /\ query \in [max : QueryMax, done : {FALSE}, maxresults : {NaN}]

ListNext == ListQuery

ListSpec == ListInit /\ [][ListNext]_vars

\* ------------------------------------------------------------ claims

\* The store and the token are left as they were.
CredentialsUnchanged == store' = store /\ token' = token

\* C1: a resource request that arrives while realmId or the token is absent is
\* answered 401, sends no outbound call and changes no state.
C1_GateRejects ==
    [][\A r \in Req, op \in Ops :
         (ReqStart(r, op) /\ (store.realmId = Null \/ token = NoToken))
           => (resp'.status = 401 /\ calls' = calls /\ req' = req /\ CredentialsUnchanged)]_vars

C1_Witness == resp = Unauthenticated /\ token = NoToken /\ calls = {}

\* C2: for one expired token exactly one refresh call is issued, however many
\* requests run ensureAccessToken while it is expired: no two refresh calls
\* for the same token are in flight together.
C2_SingleRefresh ==
    \A k1, k2 \in calls :
      (k1.kind = "refresh" /\ k2.kind = "refresh" /\ k1.tokId = k2.tokId) => k1 = k2

\* C3: realmId is non-null if and only if a token is present.
C3_NoSplitState == (store.realmId # Null) <=> (token # NoToken)

\* C4: after a successful exchange GET / reports connected; after a disconnect
\* it reports not connected and every resource request that arrives is answered
\* 401, until the next successful exchange.
C4_RoundTrip ==
    [][/\ (Health /\ lastAuth = "connected") => resp'.content = "connected"
       /\ (Health /\ lastAuth = "disconnected") => resp'.content = "not connected"
       /\ \A r \in Req, op \in Ops :
            (ReqStart(r, op) /\ lastAuth = "disconnected")
              => (resp'.status = 401 /\ req' = req /\ calls' = calls)]_vars

C4_Witness == lastAuth = "disconnected" /\ resp = Unauthenticated /\ token.valid

\* C5: a callback with an error field is answered 400 (provider denied)
\* whatever its other parameters; without error but without code or realmId it
\* is answered 400 (missing parameters); neither sends a token exchange call
\* nor changes realmId or the token.
C5_CallbackEarlyReturns ==
    [][\A c \in Cb, p \in CallbackParams :
         CbStart(c, p) =>
           /\ p.error # Null
                => (resp' = CallbackResp(400, "OAuth error")
                    /\ calls' = calls /\ cb' = cb /\ CredentialsUnchanged)
           /\ (p.error = Null /\ (p.code = Null \/ p.realmId = Null))
                => (resp' = CallbackResp(400, "Missing code/realmId")
                    /\ calls' = calls /\ cb' = cb /\ CredentialsUnchanged)]_vars

C5_Witness == resp = CallbackResp(400, "OAuth error") /\ store.realmId # Null /\ calls = {}

\* C6: realmId is set only by a successful exchange; a failed exchange is
\* answered 400 and leaves realmId and the token as they were.
C6_ExchangeFailureKeepsStore ==
    [][/\ \A c \in Cb :
            CbExchangeFail(c) => (resp'.status = 400 /\ CredentialsUnchanged)
       /\ (store'.realmId # Null /\ store' # store) => \E c \in Cb : CbExchangeOk(c)]_vars

C6_Witness ==
    /\ resp = CallbackResp(400, "Token exchange failed")
    /\ store.realmId # Null
    /\ token.acct = store.realmId

\* C7 as stated: once a refresh has failed, no resource request is answered
\* with a success until an exchange succeeds.
C7_FailureIsTerminal == [][refreshFailed => \A r \in Req : ~ApiOk(r)]_vars

\* C7 as amended: a failed refresh fails its request with an error response,
\* sends no proxied call for it and leaves realmId and the token as they were;
\* the failure is not remembered: a later request sends a refresh call of its
\* own and goes on to its proxied call when that refresh succeeds.
C7_RefreshFailure ==
    [][/\ \A r \in Req, e \in Err :
            RefreshFail(r, e) =>
              /\ resp'.kind = "resource" /\ resp'.status >= 400
              /\ ~\E k \in calls' : k.by = r /\ k.kind \in {"api", "refresh"}
              /\ req[r].nApi = 0
              /\ CredentialsUnchanged
       /\ \A r \in Req, op \in Ops :
            (ReqStart(r, op) /\ refreshFailed /\ requireAuth(store.realmId, token)
               /\ ~isAccessTokenValid(token))
              => \E k \in calls' \ calls : k.kind = "refresh" /\ k.by = r
       /\ \A r \in Req :
            RefreshOk(r) => \E k \in calls' \ calls : k.kind = "api" /\ k.by = r]_vars

C7_Witness ==
    /\ refreshFailed
    /\ resp.kind = "resource" /\ resp.status >= 400
    /\ store.realmId # Null /\ token # NoToken /\ ~token.valid
    /\ calls = {}

\* C8: a request has sent at most one refresh call and one proxied call, a
\* callback at most one exchange call, and every outbound call belongs to a
\* handler that is waiting for it.
C8_NoRetryNoBackground ==
    /\ \A r \in Req : req[r].nRefresh <= 1 /\ req[r].nApi <= 1
    /\ \A c \in Cb : cb[c].nExchange <= 1
    /\ \A k \in calls :
         /\ k.kind = "refresh" => (k.by \in Req /\ req[k.by].pc = "awaitRefresh")
         /\ k.kind = "api" => (k.by \in Req /\ req[k.by].pc = "awaitApi")
         /\ k.kind = "exchange" => (k.by \in Cb /\ cb[k.by].pc = "awaitExchange")
    /\ \A r \in Req : Cardinality({k \in calls : k.kind # "exchange" /\ k.by = r})
                        = (IF req[r].pc = "idle" THEN 0 ELSE 1)
    /\ \A c \in Cb : Cardinality({k \in calls : k.kind = "exchange" /\ k.by = c})
                        = (IF cb[c].pc = "idle" THEN 0 ELSE 1)

C8_Witness ==
    \E r \in Req : req[r].pc = "awaitApi" /\ req[r].nRefresh = 1 /\ req[r].nApi = 1

\* C9: when the provider answers the proxied call with a non-2xx status, the
\* response to the caller carries that status, for every resource operation.
C9_StatusMirrored ==
    [][\A r \in Req, e \in Err :
         (ApiFail(r, e) /\ e.hasResponse) => resp'.status = e.status]_vars

\* C10: a JSON error body is forwarded as it is and a non-JSON text body is
\* wrapped in an error object, for every resource operation.
C10_BodyTranslated ==
    [][\A r \in Req, e \in Err :
         (ApiFail(r, e) /\ e.hasResponse) =>
           /\ e.data.type = "object"
                => (resp'.shape = "object" /\ resp'.content = e.data.content)
           /\ (e.data.type = "string" /\ ~e.data.json) => resp'.shape = "errorObject"]_vars

\* C13: disconnect leaves both realmId and the token absent, answers 200 and
\* sends no call to the provider.
C13_DisconnectClears ==
    [][Disconnect =>
         (store'.realmId = Null /\ token' = NoToken /\ resp'.status = 200 /\ calls' = calls)]_vars

\* C15: with a token that is still valid the arriving request sends no refresh
\* call, leaves the token as it is and goes on with the current access token.
C15_NoRefreshWhileValid ==
    [][\A r \in Req, op \in Ops :
         (ReqStart(r, op) /\ requireAuth(store.realmId, token) /\ token.valid)
           => /\ token' = token
              /\ ~\E k \in calls' \ calls : k.kind = "refresh"
              /\ \E k \in calls' \ calls :
                   k.kind = "api" /\ k.by = r /\ k.tokId = token.id]_vars

C15_Witness ==
    \E r \in Req :
      /\ req[r].pc = "awaitApi" /\ req[r].nRefresh = 0
      /\ token.valid
      /\ \E k \in calls : k.kind = "api" /\ k.by = r /\ k.tokId = token.id

\* C16: when the refresh succeeds the token in oauthClient is replaced by the
\* refreshed one, and the request's proxied call carries the token held at
\* that moment, not the expired token its refresh call was sent for.
C16_BearerIsRefreshedToken ==
    [][\A r \in Req :
         RefreshOk(r) =>
           /\ token' # token /\ token'.valid
           /\ \E k \in calls' \ calls :
                /\ k.kind = "api" /\ k.by = r /\ k.tokId = token'.id
                /\ \A q \in calls : (q.kind = "refresh" /\ q.by = r) => k.tokId # q.tokId]_vars

C16_Witness ==
    \E r \in Req :
      /\ req[r].pc = "awaitApi" /\ req[r].nRefresh = 1
      /\ token.valid
      /\ \E k \in calls : k.kind = "api" /\ k.by = r /\ k.tokId = token.id

\* C17: no proxied call is sent with an absent realm in its URL.
C17_RealmNeverNull == \A k \in calls : k.kind = "api" => k.realm # Null

\* C11: a request whose proxied call the provider never answers is still
\* answered: it does not wait for the provider forever.
C11_NoIndefiniteWait ==
    \A r \in Req : (req[r].pc = "awaitApi") ~> (req[r].pc # "awaitApi")

\* C12: whatever max the client sends, the maxresults of the upstream query is
\* not greater than 100: it is 100 for a max above 100, the max itself for a
\* numeric max up to 100, and 50 when max is absent or empty.
C12_MaxClamped ==
    query.done =>
      /\ ~query.maxresults.nan => query.maxresults.n <= MaxCeiling
      /\ (query.max.kind = "numeral" /\ query.max.n > MaxCeiling) => query.maxresults = Num(MaxCeiling)
      /\ (query.max.kind = "numeral" /\ query.max.n <= MaxCeiling) => query.maxresults = Num(query.max.n)
      /\ query.max.kind \in {"absent", "empty"} => query.maxresults = Num(MaxDefault)

C12_Witness ==
    query.done /\ query.max = [kind |-> "numeral", n |-> MaxInput] /\ query.maxresults = Num(MaxCeiling)

\* C14: the process goes on to serve exactly when the client identifier, the
\* client secret and the redirect URI are all set, and a serving process stays
\* serving whatever a handler's step and its outcome are.
C14_OnlyConfigIsFatal ==
    [][/\ Startup =>
            (proc' = "serving"
               <=> (config.QBO_CLIENT_ID /\ config.QBO_CLIENT_SECRET /\ config.QBO_REDIRECT_URI))
       /\ Startup => proc' \in {"serving", "exited"}
       /\ proc = "serving" => proc' = "serving"
       /\ proc' = "exited" => Startup]_vars

C14_Witness ==
    /\ proc = "serving"
    /\ refreshFailed
    /\ resp.kind = "resource" /\ resp.status = 500

\* C18: the token and the realmId held together were issued for the same
\* account, and every proxied call pairs a bearer token with the realm of the
\* account the token was issued for.
C18_SameAuthorization ==
    /\ (store.realmId # Null /\ token # NoToken) => token.acct = store.realmId
    /\ \A k \in calls : (k.kind = "api" /\ k.realm # Null) => k.tokAcct = k.realm

====
